---- MODULE Spec2Model ----
(***************************************************************************)
(* Model of custom_components/ring_keypad/model.py: the static tables that *)
(* map Home Assistant alarm states, chime names and alarm names to Ring    *)
(* Keypad codes, and the functions that build a Z-Wave command from them.  *)
(*                                                                         *)
(* Python values are modelled as follows.                                  *)
(*   - An optional value (int | None, the result of dict.get) is a         *)
(*     sequence of length at most one; None is the empty sequence.         *)
(*   - An IntEnum member is a record [enum, name, value].                  *)
(*   - A dict entry that can hold an int or a str (property_key, value)    *)
(*     is a tagged record built by PyInt or PyStr.                         *)
(*   - A str that the code builds is a sequence of one-character strings,  *)
(*     so that formatting is a computation and can be parsed back.  Keys   *)
(*     and error messages are opaque and stay TLA+ strings.                *)
(***************************************************************************)
EXTENDS Integers, Sequences, FiniteSets, TLC

----------------------------------------------------------------------------
(* Bounds of the explored inputs *)

MaxDelay == 90
MaxNegDelay == 2
MaxMinutes == 60
MaxStateDelay == 3
MaxIdemDelay == 1
MaxDefaultHalfMinutes == 3

----------------------------------------------------------------------------
(* Python value helpers *)

None == <<>>

Some(v) == <<v>>

PyInt(n) == [type |-> "int", int |-> n, str |-> <<>>]

PyStr(s) == [type |-> "str", int |-> 0, str |-> s]

Digits == <<"0", "1", "2", "3", "4", "5", "6", "7", "8", "9">>

RECURSIVE NatStr(_)
NatStr(n) == IF n < 10 THEN <<Digits[n + 1]>>
             ELSE NatStr(n \div 10) \o <<Digits[(n % 10) + 1]>>

(* str(int) as the f-string replacement field renders it *)
IntStr(n) == IF n < 0 THEN <<"-">> \o NatStr(-n) ELSE NatStr(n)

(* enum.IntEnum member *)
Member(enum, name, value) == [enum |-> enum, name |-> name, value |-> value]

(* dict.get(key): the entry, or None when the key is absent *)
Get(table, key) == IF key \in DOMAIN table THEN Some(table[key]) ELSE None

(* bool(x) of a dict.get result: None and an IntEnum equal to 0 are falsy *)
Truthy(opt) == opt # None /\ opt[1].value # 0

----------------------------------------------------------------------------
(* Module constants *)

COMMAND_CLASS == "135"
ENDPOINT == 0
MODE_PROPERTY_KEY == 1
NOTIFICATION_SOUND_PROPERTY_KEY == 9
MAX_VALUE == 100
PROPERTY_KEY_TIMEOUT == <<"t", "i", "m", "e", "o", "u", "t">>

Message ==
    [INVALID_CODE |-> 9, NEED_BYPASS |-> 16, DISARMED |-> 2, ARMED_AWAY |-> 11,
     ARMED_HOME |-> 10, GENERIC_ALARM |-> 12, BURGLAR_ALARM |-> 13,
     SMOKE_ALARM |-> 14, CO2_ALARM |-> 15, MEDICAL_ALARM |-> 19]

Delay == [ENTRY_DELAY |-> 17, EXIT_DELAY |-> 18]

NotificationSound ==
    [DOUBLE_BEEP |-> 96, GUITAR_RIFF |-> 97, WIND_CHIME |-> 98,
     BING_BONG |-> 99, DOORBELL |-> 100]

MessageMember(name) == Member("Message", name, Message[name])

DelayMember(name) == Member("Delay", name, Delay[name])

NotificationSoundMember(name) == Member("NotificationSound", name, NotificationSound[name])

(* homeassistant.components.alarm_control_panel.AlarmControlPanelState *)
AlarmControlPanelState ==
    {"disarmed", "armed_home", "armed_away", "armed_night", "armed_vacation",
     "armed_custom_bypass", "pending", "arming", "disarming", "triggered"}

TRIGGERED == "triggered"

(* ALARM_STATE, CHIME, ALARM: the module-level dicts, which Python leaves   *)
(* mutable.  DEFAULT_DELAY: the constant imported from const.py, a number  *)
(* of seconds fixed when the module is loaded.  call, outcome: the last    *)
(* call made and what it returned or raised.  ref: an earlier call and its *)
(* outcome, kept for comparison with later calls.                          *)
VARIABLES ALARM_STATE, CHIME, ALARM, DEFAULT_DELAY, call, outcome, ref

tables == <<ALARM_STATE, CHIME, ALARM, DEFAULT_DELAY>>

vars == <<ALARM_STATE, CHIME, ALARM, DEFAULT_DELAY, call, outcome, ref>>

(* Mutant: the codes of the two armed modes exchanged *)
ALARM_STATE_Init_swapped ==
    ("armed_away" :> MessageMember("ARMED_HOME"))
    @@ ("armed_home" :> MessageMember("ARMED_AWAY"))
    @@ ("arming" :> DelayMember("EXIT_DELAY"))
    @@ ("disarmed" :> MessageMember("DISARMED"))
    @@ ("pending" :> DelayMember("ENTRY_DELAY"))
    @@ ("triggered" :> MessageMember("BURGLAR_ALARM"))

ALARM_STATE_Init ==
    ("armed_away" :> MessageMember("ARMED_AWAY"))
    @@ ("armed_home" :> MessageMember("ARMED_HOME"))
    @@ ("arming" :> DelayMember("EXIT_DELAY"))
    @@ ("disarmed" :> MessageMember("DISARMED"))
    @@ ("pending" :> DelayMember("ENTRY_DELAY"))
    @@ ("triggered" :> MessageMember("BURGLAR_ALARM"))

CHIME_Init ==
    ("invalid_code" :> MessageMember("INVALID_CODE"))
    @@ ("need_bypass" :> MessageMember("NEED_BYPASS"))
    @@ ("double_beep" :> NotificationSoundMember("DOUBLE_BEEP"))
    @@ ("guitar_riff" :> NotificationSoundMember("GUITAR_RIFF"))
    @@ ("wind_chime" :> NotificationSoundMember("WIND_CHIME"))
    @@ ("bing_bong" :> NotificationSoundMember("BING_BONG"))
    @@ ("doorbell" :> NotificationSoundMember("DOORBELL"))

ALARM_Init ==
    ("generic" :> MessageMember("GENERIC_ALARM"))
    @@ ("burglar" :> MessageMember("BURGLAR_ALARM"))
    @@ ("smoke" :> MessageMember("SMOKE_ALARM"))
    @@ ("co2" :> MessageMember("CO2_ALARM"))
    @@ ("medical" :> MessageMember("MEDICAL_ALARM"))

----------------------------------------------------------------------------
(* Outcomes of a call: a returned value or a raised exception *)

Return(v) == [ret |-> Some(v), exc |-> None]

Raise(type, msg) == [ret |-> None, exc |-> Some([type |-> type, msg |-> msg])]

NoOutcome == [ret |-> None, exc |-> None]

Command(property, property_key, value) ==
    [command_class |-> COMMAND_CLASS,
     endpoint |-> ENDPOINT,
     property |-> property,
     property_key |-> property_key,
     value |-> value]

----------------------------------------------------------------------------
(* The functions *)

(* Mutant: seconds zero-padded, as f"{minutes}m{seconds:02d}s" *)
_format_delay_padded(delay) ==
    LET total_seconds == IF delay # None THEN delay[1] ELSE 0
        minutes == total_seconds \div 60
        seconds == total_seconds % 60
    IN  IntStr(minutes) \o <<"m">>
        \o (IF seconds < 10 THEN <<"0">> ELSE <<>>) \o IntStr(seconds) \o <<"s">>

_format_delay(delay) ==
    LET total_seconds == IF delay # None THEN delay[1] ELSE 0
        minutes == total_seconds \div 60
        seconds == total_seconds % 60
    IN  IntStr(minutes) \o <<"m">> \o IntStr(seconds) \o <<"s">>

(* The part of alarm_state_command after a successful lookup, with the     *)
(* choices a mutant varies: whether the default replaces the delay,        *)
(* whether the value is formatted, and whether TRIGGERED has its own key.  *)
StateCommandOf(message, useDefault, formatted, triggeredKey, delay) ==
    LET isDelay == message.enum = "Delay"
        property_key ==
            IF isDelay THEN PyStr(PROPERTY_KEY_TIMEOUT)
            ELSE IF triggeredKey THEN PyInt(NOTIFICATION_SOUND_PROPERTY_KEY)
            ELSE PyInt(MODE_PROPERTY_KEY)
        value ==
            IF formatted
            THEN PyStr(_format_delay(
                     IF useDefault THEN Some(DEFAULT_DELAY) ELSE Some(delay[1])))
            ELSE PyInt(MAX_VALUE)
    IN  Return(Command(message.value, property_key, value))

(* Mutant: "if not delay" in place of "if delay is None" *)
alarm_state_command_truthy_delay(state, delay) ==
    LET message == Get(ALARM_STATE, state) IN
    IF ~Truthy(message)
    THEN Raise("ValueError", "Invalid alarm state command: " \o state)
    ELSE StateCommandOf(message[1], delay = None \/ delay = Some(0),
                        message[1].enum = "Delay", state = TRIGGERED, delay)

(* Mutant: ALARM_STATE.get(state, Message.DISARMED), a lookup with a default *)
alarm_state_command_default_disarmed(state, delay) ==
    LET found == Get(ALARM_STATE, state)
        message == IF found = None THEN Some(MessageMember("DISARMED")) ELSE found
    IN
    IF ~Truthy(message)
    THEN Raise("ValueError", "Invalid alarm state command: " \o state)
    ELSE StateCommandOf(message[1], delay = None,
                        message[1].enum = "Delay", state = TRIGGERED, delay)

(* Mutant: the TRIGGERED branch left out *)
alarm_state_command_no_triggered(state, delay) ==
    LET message == Get(ALARM_STATE, state) IN
    IF ~Truthy(message)
    THEN Raise("ValueError", "Invalid alarm state command: " \o state)
    ELSE StateCommandOf(message[1], delay = None,
                        message[1].enum = "Delay", FALSE, delay)

(* Mutant: the delay formatted into value for every state that is given one *)
alarm_state_command_value_any_state(state, delay) ==
    LET message == Get(ALARM_STATE, state) IN
    IF ~Truthy(message)
    THEN Raise("ValueError", "Invalid alarm state command: " \o state)
    ELSE StateCommandOf(message[1], delay = None,
                        message[1].enum = "Delay" \/ delay # None,
                        state = TRIGGERED, delay)

alarm_state_command(state, delay) ==
    LET message == Get(ALARM_STATE, state) IN
    IF ~Truthy(message)
    THEN Raise("ValueError", "Invalid alarm state command: " \o state)
    ELSE
      LET isDelay == message[1].enum = "Delay"
          property_key ==
              IF isDelay THEN PyStr(PROPERTY_KEY_TIMEOUT)
              ELSE IF state = TRIGGERED THEN PyInt(NOTIFICATION_SOUND_PROPERTY_KEY)
              ELSE PyInt(MODE_PROPERTY_KEY)
          value ==
              IF isDelay
              THEN PyStr(_format_delay(
                       IF delay = None THEN Some(DEFAULT_DELAY) ELSE Some(delay[1])))
              ELSE PyInt(MAX_VALUE)
      IN  Return(Command(message[1].value, property_key, value))

(* Mutant: the mode key in place of the notification-sound key *)
alarm_command_mode_key(alarm) ==
    LET property == Get(ALARM, alarm) IN
    IF ~Truthy(property)
    THEN Raise("ValueError", "Invalid chime command: " \o alarm)
    ELSE Return(Command(property[1].value, PyInt(MODE_PROPERTY_KEY), PyInt(MAX_VALUE)))

(* Mutant: the lookup made in CHIME *)
alarm_command_chime_table(alarm) ==
    LET property == Get(CHIME, alarm) IN
    IF ~Truthy(property)
    THEN Raise("ValueError", "Invalid chime command: " \o alarm)
    ELSE Return(Command(property[1].value,
                        PyInt(NOTIFICATION_SOUND_PROPERTY_KEY),
                        PyInt(MAX_VALUE)))

alarm_command(alarm) ==
    LET property == Get(ALARM, alarm) IN
    IF ~Truthy(property)
    THEN Raise("ValueError", "Invalid chime command: " \o alarm)
    ELSE Return(Command(property[1].value,
                        PyInt(NOTIFICATION_SOUND_PROPERTY_KEY),
                        PyInt(MAX_VALUE)))

(* Mutant: isinstance(message, Message) selects the notification-sound key *)
chime_command_message_check(chime) ==
    LET message == Get(CHIME, chime) IN
    IF ~Truthy(message)
    THEN Raise("ValueError", "Invalid chime command: " \o chime)
    ELSE
      LET property_key ==
              IF message[1].enum = "Message"
              THEN PyInt(NOTIFICATION_SOUND_PROPERTY_KEY)
              ELSE PyInt(MODE_PROPERTY_KEY)
      IN  Return(Command(message[1].value, property_key, PyInt(MAX_VALUE)))

chime_command(chime) ==
    LET message == Get(CHIME, chime) IN
    IF ~Truthy(message)
    THEN Raise("ValueError", "Invalid chime command: " \o chime)
    ELSE
      LET property_key ==
              IF message[1].enum = "NotificationSound"
              THEN PyInt(NOTIFICATION_SOUND_PROPERTY_KEY)
              ELSE PyInt(MODE_PROPERTY_KEY)
      IN  Return(Command(message[1].value, property_key, PyInt(MAX_VALUE)))

----------------------------------------------------------------------------
(* Inputs *)

DelaySeconds == (-MaxNegDelay .. MaxDelay) \cup {60 * MaxMinutes}

Delays == {None} \cup {Some(d) : d \in DelaySeconds}

StateDelaySeconds ==
    (-MaxNegDelay .. MaxStateDelay) \cup {59, 60, 65, 90, 60 * MaxMinutes}

StateDelays == {None} \cup {Some(d) : d \in StateDelaySeconds}

IdemDelays == {None} \cup {Some(d) : d \in 0 .. MaxIdemDelay}

DefaultDelays == {30 * k : k \in 1 .. MaxDefaultHalfMinutes}

Names == DOMAIN CHIME_Init \cup DOMAIN ALARM_Init \cup {"unknown"}

TypeCall(op, key, delay) == [op |-> op, key |-> key, delay |-> delay]

----------------------------------------------------------------------------
(* Initial state and calls *)

Init ==
    /\ ALARM_STATE = ALARM_STATE_Init
    /\ CHIME = CHIME_Init
    /\ ALARM = ALARM_Init
    /\ DEFAULT_DELAY \in DefaultDelays
    /\ call = TypeCall("none", "", None)
    /\ outcome = NoOutcome
    /\ ref = None

FormatDelay(delay) ==
    /\ call' = TypeCall("_format_delay", "", delay)
    /\ outcome' = Return(PyStr(_format_delay(delay)))
    /\ UNCHANGED tables

AlarmStateCommand(state, delay) ==
    /\ call' = TypeCall("alarm_state_command", state, delay)
    /\ outcome' = alarm_state_command(state, delay)
    /\ UNCHANGED tables

(* Mutant: ALARM.pop(alarm, None), a lookup that removes the entry *)
AlarmCommand_pop(alarm) ==
    /\ call' = TypeCall("alarm_command", alarm, None)
    /\ outcome' = alarm_command(alarm)
    /\ ALARM' = [k \in DOMAIN ALARM \ {alarm} |-> ALARM[k]]
    /\ UNCHANGED <<ALARM_STATE, CHIME, DEFAULT_DELAY>>

AlarmCommand(alarm) ==
    /\ call' = TypeCall("alarm_command", alarm, None)
    /\ outcome' = alarm_command(alarm)
    /\ UNCHANGED tables

ChimeCommand(chime) ==
    /\ call' = TypeCall("chime_command", chime, None)
    /\ outcome' = chime_command(chime)
    /\ UNCHANGED tables

Next ==
    \/ \E delay \in Delays : FormatDelay(delay) /\ UNCHANGED ref
    \/ \E state \in AlarmControlPanelState, delay \in StateDelays :
           AlarmStateCommand(state, delay) /\ UNCHANGED ref
    \/ \E alarm \in Names : AlarmCommand(alarm) /\ UNCHANGED ref
    \/ \E chime \in Names : ChimeCommand(chime) /\ UNCHANGED ref

Spec == Init /\ [][Next]_vars

(* History for comparing two calls: at any step the call that has just     *)
(* completed may be kept as the reference for every later call.            *)
Remember ==
    \/ UNCHANGED ref
    \/ call.op # "none" /\ ref' = Some([call |-> call, outcome |-> outcome])

NextIdem ==
    \/ \E delay \in IdemDelays : FormatDelay(delay) /\ Remember
    \/ \E state \in AlarmControlPanelState, delay \in IdemDelays :
           AlarmStateCommand(state, delay) /\ Remember
    \/ \E alarm \in Names : AlarmCommand(alarm) /\ Remember
    \/ \E chime \in Names : ChimeCommand(chime) /\ Remember

SpecIdem == Init /\ [][NextIdem]_vars

----------------------------------------------------------------------------
(* Reading a record back, for the properties below *)

Chars(a, b, c, d) == <<a, b, c, d>>

IsDigit(c) == \E i \in 1 .. 10 : Digits[i] = c

DigitValue(c) == (CHOOSE i \in 1 .. 10 : Digits[i] = c) - 1

(* A decimal numeral without padding: digits, no leading zero unless "0" *)
IsNatNumeral(s) ==
    /\ Len(s) >= 1
    /\ \A i \in 1 .. Len(s) : IsDigit(s[i])
    /\ (Len(s) > 1 => s[1] # "0")

IsIntNumeral(s) ==
    /\ Len(s) >= 1
    /\ IF s[1] = "-" THEN IsNatNumeral(Tail(s)) /\ Tail(s) # <<"0">>
       ELSE IsNatNumeral(s)

RECURSIVE NatValue(_)
NatValue(s) == IF Len(s) = 1 THEN DigitValue(s[1])
               ELSE 10 * NatValue(SubSeq(s, 1, Len(s) - 1)) + DigitValue(s[Len(s)])

IntValue(s) == IF s[1] = "-" THEN -NatValue(Tail(s)) ELSE NatValue(s)

MarkAt(s) == CHOOSE i \in 1 .. Len(s) : s[i] = "m"

MinutesPart(s) == SubSeq(s, 1, MarkAt(s) - 1)

SecondsPart(s) == SubSeq(s, MarkAt(s) + 1, Len(s) - 1)

(* "<minutes>m<seconds>s", both numerals unpadded, seconds within a minute *)
IsDuration(s) ==
    /\ Len(s) >= 4
    /\ s[Len(s)] = "s"
    /\ Cardinality({i \in 1 .. Len(s) : s[i] = "m"}) = 1
    /\ IsIntNumeral(MinutesPart(s))
    /\ IsNatNumeral(SecondsPart(s))
    /\ NatValue(SecondsPart(s)) \in 0 .. 59

DurationTotal(s) == 60 * IntValue(MinutesPart(s)) + NatValue(SecondsPart(s))

StateCalled == call.op = "alarm_state_command"

AlarmCalled == call.op = "alarm_command"

ChimeCalled == call.op = "chime_command"

CommandCalled == StateCalled \/ AlarmCalled \/ ChimeCalled

Returned == outcome.ret # None

Raised == outcome.exc # None

Record == outcome.ret[1]

TableCalled ==
    IF StateCalled THEN ALARM_STATE ELSE IF AlarmCalled THEN ALARM ELSE CHIME

----------------------------------------------------------------------------
(* C1: for every state of the state table and every delay, absent or an    *)
(* integer, alarm_state_command returns a record whose property is the     *)
(* code of that state (ARMED_AWAY 11, ARMED_HOME 10, ARMING 18, DISARMED   *)
(* 2, PENDING 17, TRIGGERED 13); for ARMED_AWAY, ARMED_HOME and DISARMED   *)
(* its property_key is 1 and its value is 100.                             *)
C1_StateCodes ==
    ("armed_away" :> 11) @@ ("armed_home" :> 10) @@ ("arming" :> 18)
    @@ ("disarmed" :> 2) @@ ("pending" :> 17) @@ ("triggered" :> 13)

C1_StateCommandProperty ==
    (StateCalled /\ call.key \in DOMAIN C1_StateCodes) =>
        /\ Returned
        /\ Record.property = C1_StateCodes[call.key]
        /\ (call.key \in {"armed_away", "armed_home", "disarmed"} =>
               /\ Record.property_key = PyInt(1)
               /\ Record.value = PyInt(100))

C1_Witness ==
    /\ StateCalled
    /\ call.key = "armed_home"
    /\ call.delay = Some(65)
    /\ Returned
    /\ Record.property = 10
    /\ Record.value = PyInt(100)

(* C2: for ARMING (18) and PENDING (17) alarm_state_command returns        *)
(* property_key "timeout" and a value that is the formatted duration of    *)
(* the delay given; the default duration is formatted exactly when the     *)
(* delay is absent, so a delay of 0 gives "0m0s" and not the default.      *)
C2_DelayValue ==
    (StateCalled /\ call.key \in {"arming", "pending"}) =>
        /\ Returned
        /\ Record.property = (IF call.key = "arming" THEN 18 ELSE 17)
        /\ Record.property_key = PyStr(PROPERTY_KEY_TIMEOUT)
        /\ Record.value.type = "str"
        /\ IsDuration(Record.value.str)
        /\ DurationTotal(Record.value.str) =
               (IF call.delay = None THEN DEFAULT_DELAY ELSE call.delay[1])
        /\ (call.delay = Some(0) =>
               /\ Record.value.str = Chars("0", "m", "0", "s")
               /\ DurationTotal(Record.value.str) # DEFAULT_DELAY)

C2_Witness ==
    /\ StateCalled
    /\ call.key = "pending"
    /\ call.delay = Some(0)
    /\ Returned
    /\ Record.value = PyStr(Chars("0", "m", "0", "s"))

(* C3: each of the three operations raises the invalid-key error exactly   *)
(* when the key is not in its table, and then returns no record; no table  *)
(* maps a key to 0, so the truthiness test rejects no key that is present. *)
C3_RaisesIffAbsent ==
    /\ \A k \in DOMAIN ALARM_STATE : ALARM_STATE[k].value # 0
    /\ \A k \in DOMAIN ALARM : ALARM[k].value # 0
    /\ \A k \in DOMAIN CHIME : CHIME[k].value # 0
    /\ CommandCalled =>
        /\ Raised <=> call.key \notin DOMAIN TableCalled
        /\ Raised <=> ~Returned
        /\ Raised => outcome.exc[1].type = "ValueError"

C3_Witness ==
    /\ StateCalled
    /\ call.key = "armed_night"
    /\ Raised
    /\ ~Returned

(* C4: for every name of the alarm table alarm_command returns a record    *)
(* with the code of that name (generic 12, burglar 13, smoke 14, co2 15,   *)
(* medical 19), property_key 9 and value 100.                              *)
C4_AlarmCodes ==
    ("generic" :> 12) @@ ("burglar" :> 13) @@ ("smoke" :> 14)
    @@ ("co2" :> 15) @@ ("medical" :> 19)

C4_AlarmCommand ==
    (AlarmCalled /\ call.key \in DOMAIN C4_AlarmCodes) =>
        /\ Returned
        /\ Record.property = C4_AlarmCodes[call.key]
        /\ Record.property_key = PyInt(9)
        /\ Record.value = PyInt(100)

C4_Witness ==
    /\ AlarmCalled
    /\ call.key = "medical"
    /\ Returned
    /\ Record.property = 19

(* C5: for every name of the chime table chime_command returns a record    *)
(* with the code of that name and value 100; property_key is 9 exactly for *)
(* the sound codes (double_beep, guitar_riff, wind_chime, bing_bong,       *)
(* doorbell) and 1 exactly for the message codes (invalid_code,            *)
(* need_bypass).                                                           *)
C5_ChimeCodes ==
    ("invalid_code" :> 9) @@ ("need_bypass" :> 16) @@ ("double_beep" :> 96)
    @@ ("guitar_riff" :> 97) @@ ("wind_chime" :> 98) @@ ("bing_bong" :> 99)
    @@ ("doorbell" :> 100)

C5_ChimeCommand ==
    (ChimeCalled /\ call.key \in DOMAIN C5_ChimeCodes) =>
        /\ Returned
        /\ Record.property = C5_ChimeCodes[call.key]
        /\ Record.value = PyInt(100)
        /\ Record.property_key \in {PyInt(9), PyInt(1)}
        /\ Record.property_key = PyInt(9) <=>
               call.key \in {"double_beep", "guitar_riff", "wind_chime",
                             "bing_bong", "doorbell"}
        /\ Record.property_key = PyInt(1) <=>
               call.key \in {"invalid_code", "need_bypass"}

C5_Witness ==
    /\ ChimeCalled
    /\ call.key = "invalid_code"
    /\ Returned
    /\ Record.property_key = PyInt(1)

(* C6: for every number of seconds S of the inputs the formatted duration  *)
(* is "<S div 60>m<S mod 60>s" without padding: the seconds are in 0..59   *)
(* and 60 * minutes + seconds = S; 0 gives "0m0s", 65 "1m5s", 90 "1m30s"   *)
(* and 3600 "60m0s".                                                       *)
C6_FormatDelay ==
    (call.op = "_format_delay" /\ call.delay # None) =>
        LET S == call.delay[1]
            text == Record.str
        IN  /\ Returned
            /\ Record.type = "str"
            /\ IsDuration(text)
            /\ IntValue(MinutesPart(text)) = S \div 60
            /\ NatValue(SecondsPart(text)) = S % 60
            /\ NatValue(SecondsPart(text)) \in 0 .. 59
            /\ DurationTotal(text) = S
            /\ (S = 0 => text = Chars("0", "m", "0", "s"))
            /\ (S = 65 => text = Chars("1", "m", "5", "s"))
            /\ (S = 90 => text = <<"1", "m", "3", "0", "s">>)
            /\ (S = 3600 => text = <<"6", "0", "m", "0", "s">>)

C6_Witness ==
    /\ call.op = "_format_delay"
    /\ call.delay = Some(65)
    /\ Returned
    /\ Record = PyStr(Chars("1", "m", "5", "s"))

(* C7: two calls of an operation with the same inputs, however many other  *)
(* calls come between them, have the same outcome (the same record or the  *)
(* same error), and no call changes the tables or the default delay that   *)
(* later calls read.                                                       *)
C7_SameOutcome ==
    (ref # None /\ ref[1].call = call) => ref[1].outcome = outcome

C7_Idempotent ==
    /\ [][tables' = tables]_vars
    /\ []C7_SameOutcome

C7_Witness ==
    /\ ref # None
    /\ ref[1].call = call
    /\ AlarmCalled
    /\ call.key = "burglar"
    /\ Returned
    /\ ref[1].outcome = outcome

(* C8: every record returned by one of the three operations has as its     *)
(* property the value its own table holds for the key supplied, has        *)
(* command_class "135" and endpoint 0.                                     *)
C8_NoSynthesizedCode ==
    (CommandCalled /\ Returned) =>
        /\ call.key \in DOMAIN TableCalled
        /\ Record.property = TableCalled[call.key].value
        /\ Record.property \in {TableCalled[k].value : k \in DOMAIN TableCalled}
        /\ Record.command_class = "135"
        /\ Record.endpoint = 0

C8_Witness ==
    /\ ChimeCalled
    /\ call.key = "doorbell"
    /\ Returned
    /\ Record.property = 100
    /\ Record.command_class = "135"

(* C9: for TRIGGERED alarm_state_command returns property_key 9 and value  *)
(* 100 whatever the delay, absent or an integer; the record is the record  *)
(* alarm_command("burglar") returns, with property 13.                     *)
C9_Triggered ==
    (StateCalled /\ call.key = "triggered") =>
        /\ Returned
        /\ Record.property = 13
        /\ Record.property_key = PyInt(9)
        /\ Record.value = PyInt(100)
        /\ outcome = alarm_command("burglar")

C9_Witness ==
    /\ StateCalled
    /\ call.key = "triggered"
    /\ call.delay = Some(90)
    /\ Returned
    /\ Record.property_key = PyInt(9)

(* C10: in every record the three operations return, the value is a        *)
(* formatted duration exactly when property_key is "timeout", exactly when *)
(* property is a delay code (17 or 18); in every other record the value is *)
(* 100 and property_key is 1 or 9.  So a command for a state that is not   *)
(* a delay state does not depend on the delay, and alarm_command and       *)
(* chime_command return no "timeout" record.                               *)
C10_RecordShape ==
    (CommandCalled /\ Returned) =>
        /\ Record.value.type = "str" <=> Record.property_key = PyStr(PROPERTY_KEY_TIMEOUT)
        /\ Record.value.type = "str" <=> Record.property \in {17, 18}
        /\ Record.value.type = "str" => IsDuration(Record.value.str)
        /\ Record.value.type # "str" =>
               /\ Record.value = PyInt(100)
               /\ Record.property_key \in {PyInt(1), PyInt(9)}
        /\ (StateCalled /\ Record.property \notin {17, 18}) =>
               outcome = alarm_state_command(call.key, None)
        /\ (AlarmCalled \/ ChimeCalled) =>
               Record.property_key # PyStr(PROPERTY_KEY_TIMEOUT)

C10_Witness ==
    /\ StateCalled
    /\ call.key = "disarmed"
    /\ call.delay = Some(3600)
    /\ Returned
    /\ Record.value = PyInt(100)
    /\ Record.property_key = PyInt(1)

====
